---- MODULE Spec2Model ----
(***************************************************************************)
(* State-machine model of the PSoC 6 CAN-FD example (src/main.c).          *)
(*                                                                         *)
(* Two execution levels are modelled: the cooperative level (main: the     *)
(* initialization sequence and the polling loop, one action per statement  *)
(* group) and the interrupt level (gpio_interrupt_handler, isr_canfd with  *)
(* canfd_rx_callback), where every handler runs to completion as a single  *)
(* action that may preempt main between any two of its steps.              *)
(***************************************************************************)
EXTENDS Integers, Sequences, FiniteSets, TLC

(***************************************************************************)
(* Program constants (macros of main.c).                                   *)
(***************************************************************************)
CANFD_NODE_1 == 1
CANFD_NODE_2 == 2
USE_CANFD_NODE == CANFD_NODE_1
CANFD_HW_CHANNEL == 0
CANFD_BUFFER_INDEX == 0
CANFD_DLC == 8

(***************************************************************************)
(* Bounds of the model.                                                    *)
(***************************************************************************)
\* false-to-true transitions of gpio_intr_flag explored
MaxRises == 2
\* valid data frames delivered to canfd_rx_callback explored
MaxDataFrames == 2
\* bytes of the received record's data area that are modelled
DataAreaLen == 16
\* handler invocations between two reads of the flag by the loop explored
MaxPending == 2

(***************************************************************************)
(* Input alphabets.                                                        *)
(***************************************************************************)
\* status codes returned by the library calls: success or some failure
Statuses == {"SUCCESS", "ERROR"}
\* the identifier slot of the generated frame template before main writes it,
\* and the identifiers seen in received frames
NodeIds == {CANFD_NODE_1, CANFD_NODE_2}
\* r0_f->rtr
RtrValues == {"DATA_FRAME", "REMOTE_FRAME"}
\* r1_f->dlc is the 4-bit data length code of the received frame
DlcValues == 0 .. 15
\* msg_buf_fifo_num
FifoNums == {0, 1}
\* contents of data_area_f: two recognisable byte patterns
Payloads ==
    { [i \in 1 .. DataAreaLen |-> i],
      [i \in 1 .. DataAreaLen |-> 256 - i] }
\* value read back from a stack location past the end of canfd_data_buffer
ClobberByte == 170

\* every record the callback is applied to
RxRecords ==
    [ valid : BOOLEAN, fifo : FifoNums, rtr : RtrValues, dlc : DlcValues,
      id : NodeIds, data : Payloads ]
\* the records delivered while the whole program is explored: one of each
\* kind the callback distinguishes (invalid, remote, empty, full, too long)
LoopRxRecords ==
    { r \in RxRecords :
        /\ r.fifo = 0
        /\ r.id = CANFD_NODE_2
        /\ r.data[1] = 1
        /\ IF r.valid /\ r.rtr = "DATA_FRAME"
           THEN r.dlc \in {0, CANFD_DLC, CANFD_DLC + 1}
           ELSE r.dlc = CANFD_DLC /\ (r.valid \/ r.rtr = "DATA_FRAME") }

VARIABLES
    pc,              \* position of main
    gpio_intr_flag,  \* volatile bool gpio_intr_flag
    T0id,            \* CANFD_T0RegisterBuffer_0.id
    canfdIrqOn,      \* NVIC line of the CAN-FD interrupt enabled
    btnEventOn,      \* falling-edge event of the user button enabled
    globalIrq,       \* __enable_irq() executed
    ctxInit,         \* canfd_context initialized by Cy_CANFD_Init
    led,             \* state of CYBSP_USER_LED
    status,          \* main's local "status" after the transmit call
    lastTx,          \* arguments of the last transmit call
    mainLog,         \* last outcome line printed by the loop
    iter,            \* events of the current (or last) loop iteration
    rxIn,            \* arguments of the last canfd_rx_callback invocation
                     \* (called = FALSE: a record not yet delivered)
    rxOut,           \* what that invocation did
    failed,          \* initialization steps that returned a failure status
    lastWrite,       \* last write to gpio_intr_flag: who and what
    rises,           \* false-to-true transitions of gpio_intr_flag
    txCount,         \* calls of Cy_CANFD_UpdateAndTransmitMsgBuffer
    txSinceRise,     \* such calls since the last false-to-true transition
    nDataFrames,     \* valid data frames delivered to canfd_rx_callback
    irqBeforeInit,   \* isr_canfd has run with canfd_context not initialized
    pendingPresses,  \* handler invocations since the loop last read the flag
    servedPresses,   \* their number at the read that began the iteration
    unserved         \* a handler invocation no transmit call has followed

vars ==
    << pc, gpio_intr_flag, T0id, canfdIrqOn, btnEventOn, globalIrq, ctxInit,
       led, status, lastTx, mainLog, iter, rxIn, rxOut, failed, lastWrite,
       rises, txCount, txSinceRise, nDataFrames, irqBeforeInit,
       pendingPresses, servedPresses, unserved >>

NoTx == [called |-> FALSE, channel |-> 0, index |-> 0, id |-> 0]
NoLog == [kind |-> "none", id |-> 0]
NoRxIn ==
    [ called |-> FALSE, valid |-> FALSE, fifo |-> 0, rtr |-> "DATA_FRAME",
      dlc |-> 0, id |-> 0, data |-> << >> ]
NoRxOut ==
    [ toggles |-> 0, printfs |-> 0, header |-> << >>, copied |-> 0,
      bytes |-> << >> ]

LoopPcs == {"loop_test", "tx", "log", "clear"}
\* the CPU executes main (it is neither halted nor crashed)
Running == pc \notin {"halted", "fault"}

Init ==
    /\ pc = "bsp_init"
    /\ gpio_intr_flag = FALSE
    /\ T0id \in NodeIds
    /\ canfdIrqOn = FALSE
    /\ btnEventOn = FALSE
    /\ globalIrq = FALSE
    /\ ctxInit = FALSE
    /\ led = FALSE
    /\ status = "SUCCESS"
    /\ lastTx = NoTx
    /\ mainLog = NoLog
    /\ iter = << >>
    /\ rxIn = NoRxIn
    /\ rxOut = NoRxOut
    /\ failed = {}
    /\ lastWrite = [by |-> "initializer", val |-> FALSE]
    /\ rises = 0
    /\ txCount = 0
    /\ txSinceRise = 0
    /\ nDataFrames = 0
    /\ irqBeforeInit = FALSE
    /\ pendingPresses = 0
    /\ servedPresses = 0
    /\ unserved = FALSE

\* variant of handle_error that returns to its caller whatever the status
handle_error_returns(st, next) == next

(***************************************************************************)
(* handle_error: a status other than success ends in CY_ASSERT(0), from    *)
(* which main does not continue; otherwise main goes on with `next`.       *)
(***************************************************************************)
handle_error(st, next) == IF st # "SUCCESS" THEN "halted" ELSE next

\* history: the initialization steps that returned a failure status
NoteFailure(step, st) ==
    IF st # "SUCCESS" THEN failed \cup {step} ELSE failed

\* an initialization step "result = f(...); handle_error(result);"
CheckedStep(here, next) ==
    /\ pc = here
    /\ \E st \in Statuses :
          /\ pc' = handle_error(st, next)
          /\ failed' = NoteFailure(here, st)

(***************************************************************************)
(* main, initialization sequence.                                          *)
(***************************************************************************)
BspInit ==
    /\ CheckedStep("bsp_init", "retarget_init")
    /\ UNCHANGED << gpio_intr_flag, T0id, canfdIrqOn, btnEventOn, globalIrq,
                    ctxInit, led, status, lastTx, mainLog, iter, rxIn, rxOut,
                    lastWrite, rises, txCount, txSinceRise, nDataFrames,
                    irqBeforeInit,
                    pendingPresses, servedPresses, unserved >>

\* cy_retarget_io_init, handle_error, then the start-up banner
RetargetIoInit ==
    /\ CheckedStep("retarget_init", "sysint_init")
    /\ UNCHANGED << gpio_intr_flag, T0id, canfdIrqOn, btnEventOn, globalIrq,
                    ctxInit, led, status, lastTx, mainLog, iter, rxIn, rxOut,
                    lastWrite, rises, txCount, txSinceRise, nDataFrames,
                    irqBeforeInit,
                    pendingPresses, servedPresses, unserved >>

\* (void) Cy_SysInt_Init(&canfd_irq_cfg, &isr_canfd): the status is discarded
SysIntInit ==
    /\ pc = "sysint_init"
    /\ \E st \in Statuses :
          /\ pc' = "nvic_enable"
          /\ failed' = NoteFailure("sysint_init", st)
    /\ UNCHANGED << gpio_intr_flag, T0id, canfdIrqOn, btnEventOn, globalIrq,
                    ctxInit, led, status, lastTx, mainLog, iter, rxIn, rxOut,
                    lastWrite, rises, txCount, txSinceRise, nDataFrames,
                    irqBeforeInit,
                    pendingPresses, servedPresses, unserved >>

\* NVIC_EnableIRQ(CANFD_INTERRUPT)
NvicEnable ==
    /\ pc = "nvic_enable"
    /\ pc' = "led_init"
    /\ canfdIrqOn' = TRUE
    /\ UNCHANGED << gpio_intr_flag, T0id, btnEventOn, globalIrq, ctxInit, led,
                    status, lastTx, mainLog, iter, rxIn, rxOut, failed,
                    lastWrite, rises, txCount, txSinceRise, nDataFrames,
                    irqBeforeInit,
                    pendingPresses, servedPresses, unserved >>

\* cyhal_gpio_init(CYBSP_USER_LED, ..., CYBSP_LED_STATE_OFF), handle_error
LedInit ==
    /\ CheckedStep("led_init", "btn_init")
    /\ led' = FALSE
    /\ UNCHANGED << gpio_intr_flag, T0id, canfdIrqOn, btnEventOn, globalIrq,
                    ctxInit, status, lastTx, mainLog, iter, rxIn, rxOut,
                    lastWrite, rises, txCount, txSinceRise, nDataFrames,
                    irqBeforeInit,
                    pendingPresses, servedPresses, unserved >>

\* cyhal_gpio_init(CYBSP_USER_BTN, ...), handle_error
BtnInit ==
    /\ CheckedStep("btn_init", "gpio_cfg")
    /\ UNCHANGED << gpio_intr_flag, T0id, canfdIrqOn, btnEventOn, globalIrq,
                    ctxInit, led, status, lastTx, mainLog, iter, rxIn, rxOut,
                    lastWrite, rises, txCount, txSinceRise, nDataFrames,
                    irqBeforeInit,
                    pendingPresses, servedPresses, unserved >>

\* register gpio_interrupt_handler and enable the falling-edge event
GpioCfg ==
    /\ pc = "gpio_cfg"
    /\ pc' = "enable_irq"
    /\ btnEventOn' = TRUE
    /\ UNCHANGED << gpio_intr_flag, T0id, canfdIrqOn, globalIrq, ctxInit, led,
                    status, lastTx, mainLog, iter, rxIn, rxOut, failed,
                    lastWrite, rises, txCount, txSinceRise, nDataFrames,
                    irqBeforeInit,
                    pendingPresses, servedPresses, unserved >>

\* __enable_irq()
EnableIrq ==
    /\ pc = "enable_irq"
    /\ pc' = "canfd_init"
    /\ globalIrq' = TRUE
    /\ UNCHANGED << gpio_intr_flag, T0id, canfdIrqOn, btnEventOn, ctxInit, led,
                    status, lastTx, mainLog, iter, rxIn, rxOut, failed,
                    lastWrite, rises, txCount, txSinceRise, nDataFrames,
                    irqBeforeInit,
                    pendingPresses, servedPresses, unserved >>

\* status = Cy_CANFD_Init(..., &CANFD_config, &canfd_context); handle_error
CanfdInit ==
    /\ pc = "canfd_init"
    /\ \E st \in Statuses :
          /\ pc' = handle_error(st, "set_id")
          /\ failed' = NoteFailure("canfd_init", st)
          /\ status' = st
          /\ ctxInit' = (st = "SUCCESS")
    /\ UNCHANGED << gpio_intr_flag, T0id, canfdIrqOn, btnEventOn, globalIrq,
                    led, lastTx, mainLog, iter, rxIn, rxOut, lastWrite, rises,
                    txCount, txSinceRise, nDataFrames,
                    irqBeforeInit,
                    pendingPresses, servedPresses, unserved >>

\* variant of the setup that leaves the generated identifier in the slot
IdSlotUntouched(old) == old

\* the identifier slot of the template after line 182, given its old value
IdSlotAfterSetup(old) == USE_CANFD_NODE

\* CANFD_T0RegisterBuffer_0.id = USE_CANFD_NODE
SetId ==
    /\ pc = "set_id"
    /\ pc' = "loop_test"
    /\ T0id' = IdSlotAfterSetup(T0id)
    /\ UNCHANGED << gpio_intr_flag, canfdIrqOn, btnEventOn, globalIrq, ctxInit,
                    led, status, lastTx, mainLog, iter, rxIn, rxOut,
                    failed, lastWrite, rises, txCount, txSinceRise,
                    nDataFrames, irqBeforeInit,
                    pendingPresses, servedPresses, unserved >>

(***************************************************************************)
(* main, polling loop.                                                     *)
(***************************************************************************)
\* variant of the flag test that enters the body whatever the flag reads
LoopBranchAlways(flag) == "tx"

\* if (true == gpio_intr_flag): where the loop goes after reading the flag
LoopBranch(flag) == IF flag = TRUE THEN "tx" ELSE "loop_test"

\* the arguments of Cy_CANFD_UpdateAndTransmitMsgBuffer: channel, the buffer
\* index, and the tx buffer whose T0 register holds the identifier slot
TxRequest(idSlot) ==
    [ called |-> TRUE, channel |-> CANFD_HW_CHANNEL,
      index |-> CANFD_BUFFER_INDEX, id |-> idSlot ]

\* variant that prints the success line whatever the status
OutcomeLineAlwaysSent(st) == [kind |-> "sent", id |-> USE_CANFD_NODE]

\* the line printed for the status of the transmit call
OutcomeLine(st) ==
    [ kind |-> IF st = "SUCCESS" THEN "sent" ELSE "error",
      id |-> USE_CANFD_NODE ]

\* variant that sends the frame again when the controller rejected it
AfterOutcomeRetry(st) == IF st = "SUCCESS" THEN "clear" ELSE "tx"

\* where the loop goes after the outcome line, whatever the status was
AfterOutcome(st) == "clear"

\* variant of the loop that leaves the flag set
LoopClearValueKept == TRUE

\* the value the loop stores into gpio_intr_flag at the end of the body
LoopClearValue == FALSE

LoopTest ==
    /\ pc = "loop_test"
    /\ pc' = LoopBranch(gpio_intr_flag)
    /\ iter' = IF pc' = "tx" THEN << "read_true" >> ELSE iter
    /\ pendingPresses' = 0
    /\ servedPresses' = IF pc' = "tx" THEN pendingPresses ELSE servedPresses
    /\ UNCHANGED << gpio_intr_flag, T0id, canfdIrqOn, btnEventOn, globalIrq,
                    ctxInit, led, status, lastTx, mainLog, rxIn, rxOut,
                    failed, lastWrite, rises, txCount, txSinceRise,
                    nDataFrames, irqBeforeInit,
                    unserved >>

Transmit ==
    /\ pc = "tx"
    /\ \E st \in Statuses : status' = st
    /\ lastTx' = TxRequest(T0id)
    /\ txCount' = txCount + 1
    /\ txSinceRise' = txSinceRise + 1
    /\ iter' = Append(iter, "tx")
    /\ pc' = "log"
    /\ unserved' = FALSE
    /\ UNCHANGED << gpio_intr_flag, T0id, canfdIrqOn, btnEventOn, globalIrq,
                    ctxInit, led, mainLog, rxIn, rxOut, failed, lastWrite,
                    rises, nDataFrames, irqBeforeInit,
                    pendingPresses, servedPresses >>

LogOutcome ==
    /\ pc = "log"
    /\ mainLog' = OutcomeLine(status)
    /\ iter' = Append(iter, mainLog'.kind)
    /\ pc' = AfterOutcome(status)
    /\ UNCHANGED << gpio_intr_flag, T0id, canfdIrqOn, btnEventOn, globalIrq,
                    ctxInit, led, status, lastTx, rxIn, rxOut, failed,
                    lastWrite, rises, txCount, txSinceRise, nDataFrames,
                    irqBeforeInit,
                    pendingPresses, servedPresses, unserved >>

ClearFlag ==
    /\ pc = "clear"
    /\ gpio_intr_flag' = LoopClearValue
    /\ lastWrite' = [by |-> "main", val |-> LoopClearValue]
    /\ iter' = Append(iter, "clear")
    /\ pc' = "loop_test"
    /\ UNCHANGED << T0id, canfdIrqOn, btnEventOn, globalIrq, ctxInit, led,
                    status, lastTx, mainLog, rxIn, rxOut, failed, rises,
                    txCount, txSinceRise, nDataFrames, irqBeforeInit,
                    pendingPresses, servedPresses, unserved >>

(***************************************************************************)
(* Interrupt level.                                                        *)
(***************************************************************************)
\* variant of the handler that flips the flag instead of setting it
HandlerTogglesValue == ~gpio_intr_flag

\* the value gpio_interrupt_handler stores into gpio_intr_flag
HandlerSetValue == TRUE

\* the button interrupt is delivered: gpio_interrupt_handler runs
GpioInterruptHandler ==
    /\ Running
    /\ btnEventOn /\ globalIrq
    /\ gpio_intr_flag \/ rises < MaxRises
    /\ pendingPresses < MaxPending
    /\ pendingPresses' = pendingPresses + 1
    /\ unserved' = TRUE
    /\ gpio_intr_flag' = HandlerSetValue
    /\ lastWrite' = [by |-> "gpio_interrupt_handler", val |-> HandlerSetValue]
    /\ rises' = IF ~gpio_intr_flag /\ gpio_intr_flag' THEN rises + 1 ELSE rises
    /\ txSinceRise' =
          IF ~gpio_intr_flag /\ gpio_intr_flag' THEN 0 ELSE txSinceRise
    /\ UNCHANGED << pc, T0id, canfdIrqOn, btnEventOn, globalIrq, ctxInit, led,
                    status, lastTx, mainLog, iter, rxIn, rxOut, failed,
                    txCount, nDataFrames, irqBeforeInit,
                    servedPresses >>

\* (int) of a uint32_t, as in the arguments of printf("%d ...")
\* (INT_MAX is the largest value that is kept as it is)
ToInt(u) ==
    IF u > 2147483647 THEN ((u - 2147483647) - 2147483647) - 2 ELSE u

\* variant of the tests that does not look at msg_valid
IsDataFrameAnyValidity(valid, rtr) == rtr = "DATA_FRAME"

\* variant of the tests that does not look at the rtr field
IsDataFrameAnyRtr(valid, rtr) == valid = TRUE

\* the two tests of canfd_rx_callback: the message is valid and a data frame
IsDataFrame(valid, rtr) == valid = TRUE /\ rtr = "DATA_FRAME"

\* variant of the copy that starts one byte into the data area
MemcpyFromSecond(src, n) == [i \in 0 .. n - 1 |-> src[i + 2]]

\* memcpy(canfd_data_buffer, data_area_f, n): the memory starting at
\* canfd_data_buffer afterwards, as far as it was written (index 0 first)
Memcpy(src, n) == [i \in 0 .. n - 1 |-> src[i + 1]]

\* canfd_data_buffer[idx] as the printing loop reads it back. Indices below
\* CANFD_DLC are inside the array; a higher index reads the stack past its
\* end, which holds the byte memcpy wrote there only if nothing clobbered it.
ReadBuffer(mem, idx, intact) ==
    IF idx < CANFD_DLC \/ intact THEN mem[idx] ELSE ClobberByte

\* for (msg_idx = 0; msg_idx < canfd_dlc; msg_idx++) printf(" %d ", ...)
RECURSIVE PrintLoop(_, _, _, _)
PrintLoop(mem, msg_idx, canfd_dlc, intact) ==
    IF msg_idx < canfd_dlc
    THEN << ReadBuffer(mem, msg_idx, intact) >>
            \o PrintLoop(mem, (msg_idx + 1) % 256, canfd_dlc, intact)
    ELSE << >>

\* what one invocation of canfd_rx_callback does with the record
RxCallback(rec, intact) ==
    IF IsDataFrame(rec.valid, rec.rtr)
    THEN LET bytes ==
                 PrintLoop(Memcpy(rec.data, rec.dlc), 0, rec.dlc, intact)
         IN  [ toggles |-> 1,
               \* the header line, "Rx Data : ", one per byte, the line end
               printfs |-> 1 + 1 + Len(bytes) + 1,
               header |-> << << ToInt(rec.dlc), ToInt(rec.id) >> >>,
               copied |-> rec.dlc,
               bytes |-> bytes ]
    ELSE NoRxOut

\* variant that switches the LED on instead of toggling it
LedSwitchedOn(l, toggles) == IF toggles % 2 = 1 THEN TRUE ELSE l

\* cyhal_gpio_toggle, once per toggle the invocation made
LedAfter(l, toggles) == IF toggles % 2 = 1 THEN ~l ELSE l

\* how an invocation can end: it returns, or, when memcpy wrote past the end
\* of canfd_data_buffer (undefined behaviour), the smashed stack may also make
\* the CPU fault
RxEndings(out) ==
    IF out.copied > CANFD_DLC THEN {"return", "fault"} ELSE {"return"}

\* the CAN-FD interrupt fires for a received message: isr_canfd calls
\* Cy_CANFD_IrqHandler, which invokes the receive callback registered in the
\* initialized context
\* history: the record is one the hardware marked valid and a data frame
ValidDataFrame(rec) == rec.valid /\ rec.rtr = "DATA_FRAME"

IsrCanfdRxOf(records) ==
    /\ Running
    /\ canfdIrqOn /\ globalIrq
    /\ ctxInit
    /\ \E rec \in records :
       \E intact \in (IF rec.dlc > CANFD_DLC THEN BOOLEAN ELSE {TRUE}) :
          LET out == RxCallback(rec, intact) IN
          /\ ValidDataFrame(rec) => nDataFrames < MaxDataFrames
          /\ rxIn' = [called |-> TRUE] @@ rec
          /\ rxOut' = out
          /\ led' = LedAfter(led, out.toggles)
          /\ nDataFrames' = nDataFrames + (IF ValidDataFrame(rec) THEN 1 ELSE 0)
          /\ \E e \in RxEndings(out) :
                pc' = IF e = "fault" THEN "fault" ELSE pc
    /\ UNCHANGED << gpio_intr_flag, T0id, canfdIrqOn, btnEventOn, globalIrq,
                    ctxInit, status, lastTx, mainLog, iter, failed,
                    lastWrite, rises, txCount, txSinceRise, irqBeforeInit,
                    pendingPresses, servedPresses, unserved >>

IsrCanfdRx == IsrCanfdRxOf(LoopRxRecords)

\* the CAN-FD interrupt fires for another cause, or before the context is
\* initialized: isr_canfd calls Cy_CANFD_IrqHandler and no callback runs
IsrCanfdOther ==
    /\ Running
    /\ canfdIrqOn /\ globalIrq
    /\ irqBeforeInit' = (irqBeforeInit \/ ~ctxInit)
    /\ UNCHANGED << pc, gpio_intr_flag, T0id, canfdIrqOn, btnEventOn,
                    globalIrq, ctxInit, led, status, lastTx, mainLog, iter,
                    rxIn, rxOut, failed, lastWrite, rises, txCount,
                    txSinceRise, nDataFrames,
                    pendingPresses, servedPresses, unserved >>

MainStep ==
    \/ BspInit
    \/ RetargetIoInit
    \/ SysIntInit
    \/ NvicEnable
    \/ LedInit
    \/ BtnInit
    \/ GpioCfg
    \/ EnableIrq
    \/ CanfdInit
    \/ SetId
    \/ LoopTest
    \/ Transmit
    \/ LogOutcome
    \/ ClearFlag

Next ==
    \/ BspInit
    \/ RetargetIoInit
    \/ SysIntInit
    \/ NvicEnable
    \/ LedInit
    \/ BtnInit
    \/ GpioCfg
    \/ EnableIrq
    \/ CanfdInit
    \/ SetId
    \/ LoopTest
    \/ Transmit
    \/ LogOutcome
    \/ ClearFlag
    \/ GpioInterruptHandler
    \/ IsrCanfdRx
    \/ IsrCanfdOther

Spec == Init /\ [][Next]_vars

\* the main flow is always eventually scheduled: interrupts return
FairSpec == Spec /\ WF_vars(MainStep)

(***************************************************************************)
(* The receive callback on its own, over every record: the program has    *)
(* completed its initialization and polls with no button press, some      *)
(* record waits in the receive FIFO and the CAN-FD interrupt delivers it.  *)
(***************************************************************************)
InitRx ==
    /\ pc = "loop_test"
    /\ gpio_intr_flag = FALSE
    /\ T0id = USE_CANFD_NODE
    /\ canfdIrqOn = TRUE
    /\ btnEventOn = TRUE
    /\ globalIrq = TRUE
    /\ ctxInit = TRUE
    /\ led = FALSE
    /\ status = "SUCCESS"
    /\ lastTx = NoTx
    /\ mainLog = NoLog
    /\ iter = << >>
    /\ \E rec \in RxRecords : rxIn = [called |-> FALSE] @@ rec
    /\ rxOut = NoRxOut
    /\ failed = {}
    /\ lastWrite = [by |-> "initializer", val |-> FALSE]
    /\ rises = 0
    /\ txCount = 0
    /\ txSinceRise = 0
    /\ nDataFrames = 0
    /\ irqBeforeInit = FALSE
    /\ pendingPresses = 0
    /\ servedPresses = 0
    /\ unserved = FALSE

\* the waiting record without the delivery mark
Waiting == [f \in DOMAIN rxIn \ {"called"} |-> rxIn[f]]

IsrCanfdRxAny ==
    /\ ~rxIn.called
    /\ IsrCanfdRxOf({Waiting})

NextRx ==
    \/ IsrCanfdRxAny
    \/ LoopTest

SpecRx == InitRx /\ [][NextRx]_vars

(***************************************************************************)
(* Properties.                                                             *)
(***************************************************************************)
InitSteps ==
    { "bsp_init", "retarget_init", "sysint_init", "led_init", "btn_init",
      "canfd_init" }
\* the steps whose status main hands to handle_error
CheckedSteps == InitSteps \ {"sysint_init"}

\* the complete event sequence of one loop iteration with outcome line k
FullIter(k) == << "read_true", "tx", k, "clear" >>

\* C1: a button press taken while the loop is idle is served by exactly one
\* transmit attempt before the flag is next cleared, never by a second one
\* without a new false-to-true transition, and, the main loop being scheduled
\* fairly, the flag does become false again.
C1_PressServedOnceAndCleared ==
    /\ [][(gpio_intr_flag /\ ~gpio_intr_flag') => txSinceRise' = 1]_vars
    /\ [](txSinceRise <= 1)
    /\ ((pc \in LoopPcs /\ gpio_intr_flag) ~> ~gpio_intr_flag)

\* C2: whenever the loop is at its flag test with the flag false, transmit
\* attempts and false-to-true transitions of the flag are equal in number;
\* everywhere else the transitions lead the attempts by at most one.
C2_AttemptsMatchTransitions ==
    /\ (pc = "loop_test" /\ ~gpio_intr_flag) => txCount = rises
    /\ rises - txCount \in {0, 1}

\* C2's case: two presses served, receive interrupts interleaved, loop idle
C2_Witness ==
    /\ pc = "loop_test" /\ ~gpio_intr_flag
    /\ rises = 2 /\ txCount = 2
    /\ rxIn.called

\* C3 as stated: a failure status of any initialization step, Cy_SysInt_Init
\* included, halts the system before the loop, so nothing is ever transmitted.
C3_AnyInitFailureHalts ==
    failed # {} => (pc = "halted" /\ txCount = 0)

\* C3 as amended: a failure status of any initialization step whose status is
\* handed to handle_error (all but Cy_SysInt_Init) halts the system at that
\* step: the loop is never entered and nothing is ever transmitted.
C3_CheckedInitFailureHalts ==
    (failed \cap CheckedSteps # {}) =>
        /\ pc = "halted"
        /\ txCount = 0
        /\ iter = << >>

\* C3's case: controller initialization fails with a press already latched
C3_Witness ==
    /\ "canfd_init" \in failed
    /\ pc = "halted"
    /\ gpio_intr_flag

\* the loop has made the transmit call of its current (or last) iteration,
\* and the controller rejected the frame
RejectedIter == status # "SUCCESS" /\ Len(iter) >= 2

C5_FlagWriters ==
    /\ gpio_intr_flag = lastWrite.val
    /\ lastWrite.by \in {"initializer", "gpio_interrupt_handler", "main"}
    /\ lastWrite.by = "gpio_interrupt_handler" => lastWrite.val = TRUE
    /\ lastWrite.by = "initializer" => lastWrite.val = FALSE
    /\ lastWrite.by = "main" =>
          /\ lastWrite.val = FALSE
          /\ \E k \in {"sent", "error"} : iter = FullIter(k)
          /\ txCount >= 1

\* C5's case: the loop has cleared the flag and the receive path has run
C5_Witness ==
    /\ lastWrite.by = "main"
    /\ rxIn.called /\ rxOut.toggles = 1
    /\ rises = 2

\* the callback did nothing observable: no toggle, no printf
NothingObservable ==
    /\ rxOut.toggles = 0
    /\ rxOut.printfs = 0
    /\ rxOut.header = << >>
    /\ rxOut.bytes = << >>
    /\ led = FALSE
    /\ pc = "loop_test"

\* C6: an invocation of the callback with msg_valid false toggles nothing
\* and logs nothing, whatever the FIFO number and the record hold.
C6_InvalidIgnored ==
    (rxIn.called /\ ~rxIn.valid) => NothingObservable

\* C6's case: an invalid record that otherwise looks like a long data frame
C6_Witness ==
    /\ rxIn.called /\ ~rxIn.valid
    /\ rxIn.rtr = "DATA_FRAME" /\ rxIn.fifo = 1 /\ rxIn.dlc = 15

\* C7: an invocation with msg_valid true and a remote frame toggles nothing
\* and logs nothing.
C7_RemoteFrameIgnored ==
    (rxIn.called /\ rxIn.valid /\ rxIn.rtr # "DATA_FRAME") => NothingObservable

\* C7's case: a valid remote frame with a non-zero length field
C7_Witness ==
    /\ rxIn.called /\ rxIn.valid
    /\ rxIn.rtr = "REMOTE_FRAME" /\ rxIn.dlc = CANFD_DLC

\* C8: for a valid data frame of length L <= 8 the callback logs exactly L
\* payload bytes, the i-th of them the i-th byte of the record's data area.
C8_PayloadLoggedExactly ==
    (rxIn.called /\ rxIn.valid /\ rxIn.rtr = "DATA_FRAME" /\ rxIn.dlc <= 8) =>
        /\ Len(rxOut.bytes) = rxIn.dlc
        /\ \A i \in 1 .. rxIn.dlc : rxOut.bytes[i] = rxIn.data[i]

\* C8's case: a full frame of eight distinct bytes has been logged
C8_Witness ==
    /\ rxIn.called /\ rxIn.valid /\ rxIn.rtr = "DATA_FRAME"
    /\ rxIn.dlc = 8
    /\ rxOut.bytes = << 255, 254, 253, 252, 251, 250, 249, 248 >>

\* C9: every invocation with a valid data frame toggles the LED once and logs
\* the frame's length and identifier once, so the LED is away from its initial
\* state exactly when an odd number of valid data frames has been received,
\* whatever button presses and transmit outcomes are interleaved.
C9_LedFollowsParity ==
    /\ led = (nDataFrames % 2 = 1)
    /\ (rxIn.called /\ rxIn.valid /\ rxIn.rtr = "DATA_FRAME") =>
          /\ rxOut.toggles = 1
          /\ rxOut.header = << << rxIn.dlc, rxIn.id >> >>

\* C9's case: two data frames received around a served button press
C9_Witness ==
    /\ nDataFrames = 2 /\ ~led
    /\ txCount >= 1
    /\ rxIn.called /\ rxIn.valid /\ rxIn.rtr = "DATA_FRAME"

\* C10: at every transmit attempt the identifier slot of the template is the
\* node identity 1, the frame goes to channel 0 and buffer index 0, and the
\* outcome line reports the same identity.
C10_TransmitUsesNodeIdentity ==
    /\ lastTx.called =>
          /\ lastTx.id = 1
          /\ lastTx.channel = 0
          /\ lastTx.index = 0
    /\ pc = "tx" => T0id = 1
    /\ mainLog.kind # "none" => (lastTx.called /\ mainLog.id = lastTx.id)

\* C10's case: a frame was submitted and its outcome was logged
C10_Witness ==
    /\ lastTx.called
    /\ mainLog.kind = "sent"
    /\ pc = "clear"

\* a step in which gpio_interrupt_handler ran
HandlerRan == pendingPresses' = pendingPresses + 1

\* C11: every invocation of gpio_interrupt_handler leaves the flag true,
\* whatever it was before, and changes nothing else of the program: main's
\* position, the frame template, the transmit and log records, the LED, the
\* receive records and the driver context stay as they were.
C11_HandlerOnlySetsFlag ==
    [][HandlerRan =>
          /\ gpio_intr_flag' = TRUE
          /\ UNCHANGED << pc, T0id, canfdIrqOn, btnEventOn, globalIrq,
                          ctxInit, led, status, lastTx, mainLog, iter, rxIn,
                          rxOut, txCount, nDataFrames >>]_vars

\* C11's case: the handler has run with the flag false and again with it true
C11_Witness ==
    /\ pendingPresses = 2
    /\ rises = 1
    /\ gpio_intr_flag
    /\ lastWrite.by = "gpio_interrupt_handler"

\* the outcome line that matches a status
KindOf(st) == IF st = "SUCCESS" THEN "sent" ELSE "error"

\* C12: an iteration that found the flag true makes one transmit attempt,
\* then logs the one outcome line matching the returned status, then clears
\* the flag; the flag stays true until the call has returned and the line is
\* logged.
C12_IterationOrder ==
    /\ pc = "tx" => (iter = << "read_true" >> /\ gpio_intr_flag)
    /\ pc = "log" => (iter = << "read_true", "tx" >> /\ gpio_intr_flag)
    /\ pc = "clear" =>
          /\ iter = << "read_true", "tx", KindOf(status) >>
          /\ mainLog.kind = KindOf(status)
          /\ gpio_intr_flag
    /\ pc = "loop_test" => (iter = << >> \/ iter = FullIter(KindOf(status)))
    /\ (pc \in LoopPcs /\ txCount = 0) => iter \in { << >>, << "read_true" >> }

\* C12's case: a completed iteration whose frame the controller accepted
C12_Witness ==
    /\ pc = "loop_test"
    /\ iter = FullIter("sent")
    /\ status = "SUCCESS"
    /\ ~gpio_intr_flag

\* C13: for a valid data frame, whatever value the length field holds, no
\* more than CANFD_DLC bytes are copied into canfd_data_buffer and the
\* printing loop reads no index of it beyond CANFD_DLC - 1.
C13_CopyStaysInBuffer ==
    (rxIn.called /\ rxIn.valid /\ rxIn.rtr = "DATA_FRAME") =>
        /\ rxOut.copied <= CANFD_DLC
        /\ Len(rxOut.bytes) <= CANFD_DLC

\* the transmit attempts of the current (or last) iteration
TxIn(events) == Cardinality({i \in DOMAIN events : events[i] = "tx"})

\* C14: a press that arrives with the flag already true leaves the flag true
\* and the program state as it was; however many presses arrive between two
\* reads of the flag, the read is followed by at most one transmit attempt,
\* and attempts never outnumber the false-to-true transitions of the flag.
C14_PressesCoalesce ==
    /\ [][(HandlerRan /\ gpio_intr_flag) =>
             /\ gpio_intr_flag'
             /\ UNCHANGED << pc, T0id, canfdIrqOn, btnEventOn, globalIrq,
                             ctxInit, led, status, lastTx, mainLog, iter,
                             rxIn, rxOut, failed, lastWrite, rises, txCount,
                             txSinceRise, nDataFrames >>]_vars
    /\ [](TxIn(iter) <= 1 /\ txSinceRise <= 1 /\ txCount <= rises)

\* C14's case: two presses before one read, served by a single attempt
C14_Witness ==
    /\ servedPresses = 2
    /\ pc = "loop_test"
    /\ Len(iter) = 4
    /\ txCount = 1

\* C15: no press is lost: whenever the loop is back at its flag test with
\* the flag false, every press so far has been followed by a transmit attempt
\* begun after it (otherwise, with no further press, none would ever follow).
C15_NoPressLost ==
    (pc = "loop_test" /\ ~gpio_intr_flag) => ~unserved

\* C16: the driver context is used only once Cy_CANFD_Init has succeeded:
\* no transmit attempt before that, and no run of isr_canfd (which hands the
\* context to Cy_CANFD_IrqHandler) before that.
C16_ContextInitializedBeforeUse ==
    /\ txCount > 0 => ctxInit
    /\ ~irqBeforeInit

\* C17: once entered, the loop is never left, the halted state included, and
\* a transmit attempt is made only in an iteration that read the flag true.
C17_LoopNeverExits ==
    /\ [][(pc \in LoopPcs) => (pc' \in LoopPcs)]_vars
    /\ [][txCount' # txCount =>
             (pc = "tx" /\ iter = << "read_true" >> /\ gpio_intr_flag)]_vars

\* a step of the receive path: isr_canfd, with or without the callback
ReceiveStep == IsrCanfdRx \/ IsrCanfdOther
\* a step of the polling loop
LoopStep == LoopTest \/ Transmit \/ LogOutcome \/ ClearFlag

\* C18: the receive path touches neither the flag nor the frame template and
\* the loop never toggles the LED, so a receive interrupt inserted anywhere
\* leaves the course of main, its transmit attempts and the flag values as
\* they would have been without it.
C18_ReceivePathIndependent ==
    /\ [][ReceiveStep =>
             UNCHANGED << pc, gpio_intr_flag, T0id, status, lastTx, mainLog,
                          iter, lastWrite, rises, txCount, txSinceRise >>]_vars
    /\ [][LoopStep => UNCHANGED led]_vars

====
